---- MODULE Spec2Model ----
(***************************************************************************)
(* The datasource registry of great_expectations/datasource/fluent/        *)
(* sources.py: _SourceFactories with its class-wide type_lookup and        *)
(* __source_factories table, the registration of a Datasource class and    *)
(* its DataAsset classes, the synthesis of add_<type>_asset / read_<type>  *)
(* methods on the Datasource class, the dynamic facade (__getattr__,       *)
(* factories, __dir__), the pandas_default property and                    *)
(* _iter_all_registered_types.                                             *)
(*                                                                         *)
(* Python values are strings wherever the code only compares them; a       *)
(* Python dict is a sequence of <<key, value>> pairs in insertion order.   *)
(***************************************************************************)
EXTENDS Integers, Sequences, FiniteSets, TLC

VARIABLES
    type_lookup,        \* _SourceFactories.type_lookup: the Datasource map
    asset_lookup,       \* ds_type._type_lookup of every Datasource class
    source_factories,   \* _SourceFactories.__source_factories
    class_dict,         \* ds_type.__dict__ of every Datasource class (methods only)
    facades,            \* the _SourceFactories instances: their _data_context
    datasources,        \* data_context.datasources of every data context
    next_id,            \* identity of the next constructed Datasource instance
    calls,              \* number of register_types_and_ds_factory calls made
    reg_log,            \* history: method names of the registrations that returned normally
    last,               \* history: the last operation, its outcome and the state before it
    threads             \* the registration calls in flight on concurrent threads

vars == <<type_lookup, asset_lookup, source_factories, class_dict, facades,
          datasources, next_id, calls, reg_log, last, threads>>

----------------------------------------------------------------------------
(* Bounds of the model *)

MaxCalls == 2        \* register_types_and_ds_factory calls in one behaviour
MaxInstances == 1    \* Datasource instances constructed in one behaviour

----------------------------------------------------------------------------
(* Python values *)

None == "None"                      \* the None object (no tag below is this string)
NoExc == "no exception"             \* the call returned normally

DEFAULT_PANDAS_DATASOURCE_NAME == "default_pandas_datasource"

\* bool(value) of a str-or-None value: None and "" are falsy
Truthy(value) == value # None /\ value # ""

\* str.startswith
startswith(s, prefix) ==
    Len(s) >= Len(prefix) /\ SubSeq(s, 1, Len(prefix)) = prefix

(* dict: a sequence of <<key, value>> pairs, insertion ordered *)
DictKeys(d) == [i \in 1..Len(d) |-> d[i][1]]

DictHas(d, k) == \E i \in 1..Len(d) : d[i][1] = k

\* d[k] of a present key
DictItem(d, k) == d[CHOOSE i \in 1..Len(d) : d[i][1] = k][2]

\* d.get(k) of a dict of strings
DictGet(d, k) == IF DictHas(d, k) THEN DictItem(d, k) ELSE None

\* d[k] = v: a present key keeps its position, a new key goes last
DictSet(d, k, v) ==
    IF DictHas(d, k)
    THEN [i \in 1..Len(d) |-> IF d[i][1] = k THEN <<k, v>> ELSE d[i]]
    ELSE Append(d, <<k, v>>)

SeqToSet(s) == {s[i] : i \in 1..Len(s)}

NoDuplicates(s) == \A i, j \in 1..Len(s) : s[i] = s[j] => i = j

----------------------------------------------------------------------------
(* The classes handed to the registry.  A DataAsset class is its __name__  *)
(* and the default of its `type` field; a Datasource class is its          *)
(* __name__, the default of its `type` field, its asset_types and the      *)
(* methods its class body defines.                                         *)

CSVAsset      == [name |-> "CSVAsset",      type |-> "csv"]
TableAsset    == [name |-> "TableAsset",    type |-> "table"]
CSVAssetV2    == [name |-> "CSVAssetV2",    type |-> "csv"]
UntypedAsset  == [name |-> "UntypedAsset",  type |-> None]
PrivateAsset  == [name |-> "_PrivateAsset", type |-> None]
HiddenAsset   == [name |-> "_HiddenAsset",  type |-> "hidden"]
BlankAsset    == [name |-> "BlankAsset",    type |-> ""]

DatasourceTypes ==
    { [name |-> "PandasDatasource", type |-> "pandas",
       asset_types |-> <<CSVAsset>>, defined |-> <<>>],
      [name |-> "PandasFilesystemDatasource", type |-> "pandas",
       asset_types |-> <<TableAsset>>, defined |-> <<>>],
      [name |-> "SqlDatasource", type |-> "sql",
       asset_types |-> <<TableAsset, CSVAsset>>,
       defined |-> <<"add_table_asset", "read_csv">>],
      [name |-> "SparkDatasource", type |-> "spark",
       asset_types |-> <<CSVAsset>>,
       defined |-> <<"add_csv_asset", "read_csv">>],
      [name |-> "BrokenSqlDatasource", type |-> "sql",
       asset_types |-> <<CSVAsset, UntypedAsset>>, defined |-> <<>>],
      [name |-> "PrivateTailDatasource", type |-> "private_tail",
       asset_types |-> <<CSVAsset, PrivateAsset>>, defined |-> <<>>],
      [name |-> "DupSparkDatasource", type |-> "spark",
       asset_types |-> <<CSVAsset, CSVAssetV2>>, defined |-> <<>>],
      [name |-> "NoTypeDatasource", type |-> None,
       asset_types |-> <<CSVAsset>>, defined |-> <<>>],
      [name |-> "EmptyTypeDatasource", type |-> "",
       asset_types |-> <<CSVAsset>>, defined |-> <<>>],
      [name |-> "BareDatasource", type |-> "bare",
       asset_types |-> <<>>, defined |-> <<>>],
      [name |-> "BlankAssetDatasource", type |-> "blank",
       asset_types |-> <<BlankAsset>>, defined |-> <<>>],
      [name |-> "PrivateHeadDatasource", type |-> "private_head",
       asset_types |-> <<HiddenAsset, TableAsset>>, defined |-> <<>>],
      [name |-> "PrivateThenUntypedDatasource", type |-> "private_then_untyped",
       asset_types |-> <<PrivateAsset, UntypedAsset>>, defined |-> <<>>],
      [name |-> "PostgresDatasource", type |-> "postgres",
       asset_types |-> <<TableAsset, CSVAsset>>, defined |-> <<>>] }

DatasourceNames == {c.name : c \in DatasourceTypes}

\* the class of a __name__
ClassOf(class_name) == CHOOSE d \in DatasourceTypes : d.name = class_name

\* __bases__ of every Datasource class, as far as they are Datasource classes
\* handed to the registry: PostgresDatasource is a subclass of SqlDatasource
Bases ==
    [c \in DatasourceNames |->
        IF c = "PostgresDatasource" THEN <<"SqlDatasource">> ELSE <<>>]

\* issubclass(c, base)
issubclass(c, base) == c = base \/ base \in {Bases[c][i] : i \in 1..Len(Bases[c])}

\* the factory functions a caller may hand in with a Datasource class
FactoryFns(ds_type) == {ds_type.name \o ".factory", ds_type.name \o ".other_factory"} \cup (IF ds_type.name \in {"PandasDatasource", "BareDatasource"} THEN {ds_type.name \o ".bound_method"} ELSE {})

\* `factory_fn.__name__ = method_name` works for a function; for a bound
\* method, which is as good a callable, it raises AttributeError
NameSettable(factory_fn) ==
    \A c \in DatasourceNames : factory_fn # c \o ".bound_method"

\* a method the class body defines
UserDefined == "user defined"

\* the closures _bind_asset_factory_method_if_not_present creates
AddAssetFactory(asset_type) == "_add_asset_factory of " \o asset_type.name

ReadAssetFactory(asset_type) == "_read_asset_factory of " \o asset_type.name

----------------------------------------------------------------------------
(* TypeLookup: the bidirectional map between a class and its type name.    *)
(* An entry is [type |-> class __name__, name |-> type name].              *)

\* the assignment with nothing looked for: the pair is added unless it is there
TypeLookupSetUnchecked(data, type, name) ==
    IF \E i \in 1..Len(data) : data[i].type = type /\ data[i].name = name
    THEN [exc |-> NoExc, data |-> data]
    ELSE [exc |-> NoExc, data |-> Append(data, [type |-> type, name |-> name])]

\* lookup[type] = name
TypeLookupSet(data, type, name) ==
    IF \E i \in 1..Len(data) : data[i].name = name /\ data[i].type # type
    THEN [exc |-> "DuplicateTagError", data |-> data]
    ELSE IF \E i \in 1..Len(data) : data[i].type = type /\ data[i].name # name
    THEN [exc |-> "DuplicateTypeError", data |-> data]
    ELSE IF \E i \in 1..Len(data) : data[i].type = type /\ data[i].name = name
    THEN [exc |-> NoExc, data |-> data]
    ELSE [exc |-> NoExc, data |-> Append(data, [type |-> type, name |-> name])]

\* lookup.type_names()
type_names(data) == [i \in 1..Len(data) |-> data[i].name]

\* lookup[name] of a name in the map: its type
TypeLookupType(data, name) ==
    data[CHOOSE i \in 1..Len(data) : data[i].name = name].type

\* lookup[type] of a type in the map: its name
TypeLookupName(data, type) ==
    data[CHOOSE i \in 1..Len(data) : data[i].type = type].name

\* leaving `with lookup.transaction()`: an exception restores the map as it
\* was on entry, a normal exit keeps what was set
TransactionExit(backup, data, exc) == IF exc # NoExc THEN backup ELSE data

----------------------------------------------------------------------------
(* Registration *)

_get_field_details(model, field_name) ==
    [default_value |-> IF field_name = "type" THEN model.type ELSE None]

\* the exceptions `except (AttributeError, KeyError, TypeError)` catches
CaughtByRegisterAssets == {"AttributeError", "KeyError", "TypeError"}

\* the binding with the look for an existing method left out
bind_asset_factory_method_always(cls_dict, asset_type, asset_type_name) ==
    DictSet(DictSet(cls_dict, "add_" \o asset_type_name \o "_asset",
                    AddAssetFactory(asset_type)),
            "read_" \o asset_type_name, ReadAssetFactory(asset_type))

_bind_asset_factory_method_if_not_present(cls_dict, asset_type, asset_type_name) ==
    LET add_asset_factory_method_name == "add_" \o asset_type_name \o "_asset"
        asset_factory_defined == DictHas(cls_dict, add_asset_factory_method_name)
        read_asset_factory_method_name == "read_" \o asset_type_name
    IN  IF ~asset_factory_defined
        THEN DictSet(DictSet(cls_dict, add_asset_factory_method_name,
                             AddAssetFactory(asset_type)),
                     read_asset_factory_method_name, ReadAssetFactory(asset_type))
        ELSE cls_dict

\* the loop body with the look at the name of t left out
RegisterAssetPrivateToo(t, asset_type_lookup, cls_dict) ==
    LET asset_type_name == _get_field_details(t, "type").default_value
        set == TypeLookupSet(asset_type_lookup, t.name, asset_type_name)
        tried == IF asset_type_name = None THEN "TypeError" ELSE set.exc
        raised ==
            IF tried \in CaughtByRegisterAssets THEN "TypeRegistrationError" ELSE tried
    IN  IF raised # NoExc
        THEN [exc |-> raised, asset_type_lookup |-> asset_type_lookup,
              cls_dict |-> cls_dict]
        ELSE [exc |-> NoExc, asset_type_lookup |-> set.data,
              cls_dict |-> _bind_asset_factory_method_if_not_present(
                               cls_dict, t, asset_type_name)]

\* the body of `for t in asset_types` for one t
RegisterAsset(t, asset_type_lookup, cls_dict) ==
    IF startswith(t.name, "_")
    THEN [exc |-> NoExc, asset_type_lookup |-> asset_type_lookup, cls_dict |-> cls_dict]
    ELSE
    LET asset_type_name == _get_field_details(t, "type").default_value
        set == TypeLookupSet(asset_type_lookup, t.name, asset_type_name)
        tried ==   \* the try block: the exception it raises, or NoExc
            IF asset_type_name = None THEN "TypeError" ELSE set.exc
        raised ==  \* what leaves the try statement
            IF tried \in CaughtByRegisterAssets THEN "TypeRegistrationError" ELSE tried
    IN  IF raised # NoExc
        THEN [exc |-> raised, asset_type_lookup |-> asset_type_lookup,
              cls_dict |-> cls_dict]
        ELSE [exc |-> NoExc, asset_type_lookup |-> set.data,
              cls_dict |-> _bind_asset_factory_method_if_not_present(
                               cls_dict, t, asset_type_name)]

RECURSIVE RegisterAssetsFrom(_, _, _, _)
RegisterAssetsFrom(i, asset_types, asset_type_lookup, cls_dict) ==
    IF i > Len(asset_types)
    THEN [exc |-> NoExc, asset_type_lookup |-> asset_type_lookup, cls_dict |-> cls_dict]
    ELSE LET one == RegisterAsset(asset_types[i], asset_type_lookup, cls_dict)
         IN  IF one.exc # NoExc
             THEN one
             ELSE RegisterAssetsFrom(i + 1, asset_types, one.asset_type_lookup,
                                     one.cls_dict)

\* the methods the bodies of the base classes of class c define
InheritedMethods(c) ==
    IF Bases[c] = <<>>
    THEN <<>>
    ELSE [i \in 1..Len(ClassOf(Bases[c][1]).defined) |->
             <<ClassOf(Bases[c][1]).defined[i], UserDefined>>]

\* the loop run on the attributes visible on the class, inherited ones
\* included, instead of ds_type.__dict__
register_assets_on_visible_attributes(ds_type, asset_type_lookup, cls_dict) ==
    RegisterAssetsFrom(1, ds_type.asset_types, asset_type_lookup,
                       cls_dict \o InheritedMethods(ds_type.name))

_register_assets(ds_type, asset_type_lookup, cls_dict) ==
    RegisterAssetsFrom(1, ds_type.asset_types, asset_type_lookup, cls_dict)

\* `pre_existing = cls.__source_factories.get(method_name)`, `if pre_existing:`
PreExisting(factories, method_name) == Truthy(DictGet(factories, method_name))

\* the method name taken from the class name instead of its `type`
register_datasource_under_class_name(ds_type, factory_fn, ds_type_name, datasource_type_lookup, factories) ==
    LET method_name == "add_" \o ds_type.name
        set == TypeLookupSet(datasource_type_lookup, ds_type.name, ds_type_name)
    IN  IF PreExisting(factories, method_name)
        THEN [exc |-> "TypeRegistrationError",
              datasource_type_lookup |-> datasource_type_lookup,
              factories |-> factories]
        ELSE IF set.exc # NoExc
        THEN [exc |-> set.exc, datasource_type_lookup |-> datasource_type_lookup,
              factories |-> factories]
        ELSE IF ~NameSettable(factory_fn)
        THEN [exc |-> "AttributeError", datasource_type_lookup |-> set.data,
              factories |-> factories]
        ELSE [exc |-> NoExc, datasource_type_lookup |-> set.data,
              factories |-> DictSet(factories, method_name, factory_fn)]

\* the registration with line 156 left out: the factory is not stored
register_datasource_without_factory(ds_type, factory_fn, ds_type_name, datasource_type_lookup, factories) ==
    LET method_name == "add_" \o ds_type_name
        set == TypeLookupSet(datasource_type_lookup, ds_type.name, ds_type_name)
    IN  IF PreExisting(factories, method_name)
        THEN [exc |-> "TypeRegistrationError",
              datasource_type_lookup |-> datasource_type_lookup,
              factories |-> factories]
        ELSE IF set.exc # NoExc
        THEN [exc |-> set.exc, datasource_type_lookup |-> datasource_type_lookup,
              factories |-> factories]
        ELSE IF ~NameSettable(factory_fn)
        THEN [exc |-> "AttributeError", datasource_type_lookup |-> set.data,
              factories |-> factories]
        ELSE [exc |-> NoExc, datasource_type_lookup |-> set.data,
              factories |-> factories]

_register_datasource_and_factory_method(ds_type, factory_fn, ds_type_name, datasource_type_lookup, factories) ==
    LET method_name == "add_" \o ds_type_name
        set == TypeLookupSet(datasource_type_lookup, ds_type.name, ds_type_name)
    IN  IF PreExisting(factories, method_name)
        THEN [exc |-> "TypeRegistrationError",
              datasource_type_lookup |-> datasource_type_lookup,
              factories |-> factories]
        ELSE IF set.exc # NoExc
        THEN [exc |-> set.exc, datasource_type_lookup |-> datasource_type_lookup,
              factories |-> factories]
        ELSE IF ~NameSettable(factory_fn)
        THEN [exc |-> "AttributeError", datasource_type_lookup |-> set.data,
              factories |-> factories]
        ELSE [exc |-> NoExc, datasource_type_lookup |-> set.data,
              factories |-> DictSet(factories, method_name, factory_fn)]

\* The registry state a registration reads and writes
Registry ==
    [type_lookup |-> type_lookup, asset_lookup |-> asset_lookup,
     source_factories |-> source_factories, class_dict |-> class_dict]

\* lines 116-126 with the with statement left out: nothing is restored
RegisterWithoutTransaction(r, ds_type, factory_fn, ds_type_name) ==
    LET assets == _register_assets(ds_type, r.asset_lookup[ds_type.name],
                                   r.class_dict[ds_type.name])
        ds == _register_datasource_and_factory_method(
                  ds_type, factory_fn, ds_type_name, r.type_lookup,
                  r.source_factories)
    IN  [exc |-> IF assets.exc # NoExc THEN assets.exc ELSE ds.exc,
         registry |->
           [type_lookup |->
                IF assets.exc = NoExc THEN ds.datasource_type_lookup
                ELSE r.type_lookup,
            asset_lookup |->
                [r.asset_lookup EXCEPT ![ds_type.name] = assets.asset_type_lookup],
            source_factories |->
                IF assets.exc = NoExc THEN ds.factories ELSE r.source_factories,
            class_dict |->
                [r.class_dict EXCEPT ![ds_type.name] = assets.cls_dict]]]

\* lines 116-126: _register_assets, then
\* _register_datasource_and_factory_method (not reached when the former
\* raises), inside the transactions of both maps
RegisterInTransaction(r, ds_type, factory_fn, ds_type_name) ==
    LET assets == _register_assets(ds_type, r.asset_lookup[ds_type.name],
                                   r.class_dict[ds_type.name])
        ds == _register_datasource_and_factory_method(
                  ds_type, factory_fn, ds_type_name, r.type_lookup,
                  r.source_factories)
        exc == IF assets.exc # NoExc THEN assets.exc ELSE ds.exc
    IN  [exc |-> exc,
         registry |->
           [type_lookup |->
                TransactionExit(r.type_lookup,
                                IF assets.exc = NoExc
                                THEN ds.datasource_type_lookup
                                ELSE r.type_lookup, exc),
            asset_lookup |->
                [r.asset_lookup EXCEPT ![ds_type.name] =
                     TransactionExit(@, assets.asset_type_lookup, exc)],
            source_factories |->
                IF assets.exc = NoExc THEN ds.factories ELSE r.source_factories,
            class_dict |->
                [r.class_dict EXCEPT ![ds_type.name] = assets.cls_dict]]]

\* the call with lines 111-114 left out
register_without_type_check(r, ds_type, factory_fn) ==
    RegisterInTransaction(r, ds_type, factory_fn,
                          _get_field_details(ds_type, "type").default_value)

\* The whole call on registry state r: the exception it raises (or NoExc)
\* and the registry state it leaves
register_types_and_ds_factory(r, ds_type, factory_fn) ==
    LET ds_type_name == _get_field_details(ds_type, "type").default_value
    IN  IF ~Truthy(ds_type_name)
        THEN [exc |-> "TypeRegistrationError", registry |-> r]
        ELSE RegisterInTransaction(r, ds_type, factory_fn, ds_type_name)

\* _iter_all_registered_types() on registry state r, as the sequence of the
\* <<type name, class __name__>> pairs it yields
RECURSIVE IterRegisteredTypesFrom(_, _, _)
IterRegisteredTypesFrom(i, ds_names, r) ==
    IF i > Len(ds_names)
    THEN <<>>
    ELSE LET ds_name == ds_names[i]
             ds_type == TypeLookupType(r.type_lookup, ds_name)
             assets == r.asset_lookup[ds_type]
             asset_names == type_names(assets)
         IN  <<<<ds_name, ds_type>>>>
             \o [k \in 1..Len(asset_names) |->
                    <<asset_names[k], TypeLookupType(assets, asset_names[k])>>]
             \o IterRegisteredTypesFrom(i + 1, ds_names, r)

_iter_all_registered_types(r) ==
    IterRegisteredTypesFrom(1, type_names(r.type_lookup), r)

----------------------------------------------------------------------------
(* The facade *)

DataContexts == {"context_a", "context_b"}

\* the names a caller gives a new datasource
InstanceNames == {"my_datasource", DEFAULT_PANDAS_DATASOURCE_NAME}

\* what `datasource._data_context = ...` does on the constructed instance:
\* it sets the attribute, or the instance's class raises
SetContextOutcomes == {NoExc, "ValueError", "AttributeError", "TypeError"}

\* the attribute names a caller resolves on the facade
AttrNames == {"add_pandas", "add_sql", "add_unknown"}

\* the names object.__dir__() gives for a _SourceFactories instance
BuiltinDir ==
    <<"_data_context", "type_lookup", "register_types_and_ds_factory",
      "pandas_default", "factories">>

\* the `factories` property
factories(self) == DictKeys(source_factories)

\* __dir__
dir(self) == factories(self) \o BuiltinDir

\* __getattr__: the closure `wrapped` it returns, or the AttributeError it raises
\* with the message "No factory {attr_name} in {self.factories}"
__getattr__(self, attr_name) ==
    IF DictHas(source_factories, attr_name)
    THEN [exc |-> NoExc,
          wrapped |-> <<[self |-> self,
                         ds_constructor |-> DictItem(source_factories, attr_name)]>>,
          message |-> <<>>]
    ELSE [exc |-> "AttributeError", wrapped |-> <<>>,
          message |-> <<"No factory ", attr_name, " in ", factories(self)>>]

\* ds_constructor(name=name): a new instance
Construct(ds_constructor, name, id) ==
    [id |-> id, made_by |-> ds_constructor, name |-> name, _data_context |-> None]

\* data_context._attach_datasource_to_context(datasource)
_attach_datasource_to_context(context_datasources, datasource) ==
    DictSet(context_datasources, datasource.name, datasource)

\* the try statement around `datasource._data_context = self._data_context`:
\* the exception that leaves it
SetContextRaises(set_exc) == IF set_exc = "ValueError" THEN NoExc ELSE set_exc

\* wrapped(name): w is the closure, ctx_datasources the datasources of
\* w.self, set_exc what the attribute assignment does
wrapped(w, ctx_datasources, name, id, set_exc) ==
    LET datasource == Construct(w.ds_constructor, name, id)
        with_context ==
            IF set_exc = NoExc
            THEN [datasource EXCEPT !._data_context = w.self]
            ELSE datasource
        raised == SetContextRaises(set_exc)
    IN  IF raised # NoExc
        THEN [exc |-> raised, ret |-> <<>>, constructed |-> <<datasource>>,
              datasources |-> ctx_datasources, factory_calls |-> 1,
              attach_calls |-> 0]
        ELSE [exc |-> NoExc, ret |-> <<with_context>>,
              constructed |-> <<with_context>>,
              datasources |->
                  _attach_datasource_to_context(ctx_datasources, with_context),
              factory_calls |-> 1, attach_calls |-> 1]

\* type(datasource).__name__: a factory handed in with a class constructs
\* instances of that class
TypeOf(datasource) ==
    CHOOSE c \in DatasourceNames : datasource.made_by \in FactoryFns(ClassOf(c))

isinstance(datasource, class_name) == issubclass(TypeOf(datasource), class_name)

\* what pandas_default does when nothing is under the default name:
\* self._data_context.sources.add_pandas(name=DEFAULT_PANDAS_DATASOURCE_NAME),
\* where sources is the facade of the data context, self
add_pandas_default(self, ctx_datasources, id, set_exc) ==
    LET got == __getattr__(self, "add_pandas")
    IN  IF got.exc # NoExc
        THEN [exc |-> got.exc, ret |-> <<>>, constructed |-> <<>>,
              datasources |-> ctx_datasources, factory_calls |-> 0,
              attach_calls |-> 0]
        ELSE wrapped(got.wrapped[1], ctx_datasources,
                     DEFAULT_PANDAS_DATASOURCE_NAME, id, set_exc)

\* the property with the isinstance check left out
pandas_default_without_isinstance(self, ctx_datasources, id, set_exc) ==
    IF DictHas(ctx_datasources, DEFAULT_PANDAS_DATASOURCE_NAME)
    THEN [exc |-> NoExc,
          ret |-> <<DictItem(ctx_datasources, DEFAULT_PANDAS_DATASOURCE_NAME)>>,
          constructed |-> <<>>, datasources |-> ctx_datasources,
          factory_calls |-> 0, attach_calls |-> 0]
    ELSE add_pandas_default(self, ctx_datasources, id, set_exc)

\* the pandas_default property: ctx_datasources is
\* self._data_context.datasources; a Datasource instance is truthy
pandas_default(self, ctx_datasources, id, set_exc) ==
    IF /\ DictHas(ctx_datasources, DEFAULT_PANDAS_DATASOURCE_NAME)
       /\ ~isinstance(DictItem(ctx_datasources, DEFAULT_PANDAS_DATASOURCE_NAME),
                      "PandasDatasource")
    THEN [exc |-> "DefaultPandasDatasourceError", ret |-> <<>>,
          constructed |-> <<>>, datasources |-> ctx_datasources,
          factory_calls |-> 0, attach_calls |-> 0]
    ELSE IF DictHas(ctx_datasources, DEFAULT_PANDAS_DATASOURCE_NAME)
    THEN [exc |-> NoExc,
          ret |-> <<DictItem(ctx_datasources, DEFAULT_PANDAS_DATASOURCE_NAME)>>,
          constructed |-> <<>>, datasources |-> ctx_datasources,
          factory_calls |-> 0, attach_calls |-> 0]
    ELSE add_pandas_default(self, ctx_datasources, id, set_exc)

----------------------------------------------------------------------------
(* Concurrent registration: a call in flight is at one of the places       *)
(* where the interpreter may switch threads.                               *)

Threads == {"thread_1", "thread_2"}

NoArg == "no argument"

IdleThread ==
    [pc |-> "idle", ds_type |-> NoArg, factory_fn |-> NoArg, exc |-> NoExc,
     ds_backup |-> <<>>, asset_backup |-> <<>>]

----------------------------------------------------------------------------
(* History records *)

NoLast ==
    [op |-> "none", ds_type |-> NoArg, factory_fn |-> NoArg, attr_name |-> NoArg,
     self |-> NoArg, set_exc |-> NoExc,
     exc |-> NoExc, wrapped |-> <<>>, ret |-> <<>>, constructed |-> <<>>,
     message |-> <<>>,
     factory_calls |-> 0, attach_calls |-> 0,
     pre |-> <<>>, pre_datasources |-> <<>>, prior |-> <<>>]

----------------------------------------------------------------------------
(* Initial state: nothing registered, every class as its body defines it *)

\* the __dict__ of every Datasource class when its module is loaded
Init_class_dict ==
    [c \in DatasourceNames |->
        [i \in 1..Len(ClassOf(c).defined) |->
            <<ClassOf(c).defined[i], UserDefined>>]]

Init ==
    /\ type_lookup = <<>>
    /\ asset_lookup = [c \in DatasourceNames |-> <<>>]
    /\ source_factories = <<>>
    /\ class_dict = Init_class_dict
    /\ facades = {}
    /\ datasources = [c \in DataContexts |-> <<>>]
    /\ next_id = 1
    /\ calls = 0
    /\ reg_log = <<>>
    /\ last = NoLast
    /\ threads = [t \in Threads |-> IdleThread]

(* _SourceFactories.register_types_and_ds_factory(ds_type, factory_fn) *)
Register(ds_type, factory_fn) ==
    /\ calls < MaxCalls
    /\ LET done == register_types_and_ds_factory(Registry, ds_type, factory_fn)
       IN  /\ type_lookup' = done.registry.type_lookup
           /\ asset_lookup' = done.registry.asset_lookup
           /\ source_factories' = done.registry.source_factories
           /\ class_dict' = done.registry.class_dict
           /\ reg_log' = IF done.exc = NoExc
                         THEN Append(reg_log, "add_" \o ds_type.type)
                         ELSE reg_log
           /\ last' = [NoLast EXCEPT !.op = "register", !.ds_type = ds_type.name,
                       !.factory_fn = factory_fn, !.exc = done.exc,
                       !.pre = <<Registry>>, !.pre_datasources = datasources]
    /\ calls' = calls + 1
    /\ UNCHANGED <<facades, datasources, next_id, threads>>

(* _SourceFactories(data_context) *)
NewFacade(data_context) ==
    /\ data_context \notin facades
    /\ facades' = facades \cup {data_context}
    /\ last' = [NoLast EXCEPT !.op = "__init__", !.self = data_context,
                !.pre = <<Registry>>, !.pre_datasources = datasources]
    /\ UNCHANGED <<type_lookup, asset_lookup, source_factories, class_dict,
                   datasources, next_id, calls, reg_log, threads>>

(* getattr(self, attr_name) for a name normal lookup does not find *)
GetAttr(self, attr_name) ==
    /\ self \in facades
    /\ LET got == __getattr__(self, attr_name)
       IN  last' = [NoLast EXCEPT !.op = "__getattr__", !.self = self,
                       !.attr_name = attr_name, !.exc = got.exc,
                       !.wrapped = got.wrapped, !.message = got.message,
                       !.pre = <<Registry>>, !.pre_datasources = datasources]
    /\ UNCHANGED <<type_lookup, asset_lookup, source_factories, class_dict,
                   facades, datasources, next_id, calls, reg_log, threads>>

(* getattr(self, attr_name)(name=name): the closure is called as soon as *)
(* it is resolved, as in context.sources.add_pandas(name=...)            *)
CallFactory(self, attr_name, name, set_exc) ==
    /\ self \in facades
    /\ next_id <= MaxInstances
    /\ LET got == __getattr__(self, attr_name)
       IN  /\ got.exc = NoExc
           /\ LET done == wrapped(got.wrapped[1], datasources[self], name,
                                  next_id, set_exc)
              IN  /\ datasources' = [datasources EXCEPT ![self] = done.datasources]
                  /\ last' = [NoLast EXCEPT !.op = "wrapped", !.self = self,
                              !.attr_name = attr_name, !.wrapped = got.wrapped,
                              !.factory_fn = got.wrapped[1].ds_constructor,
                              !.set_exc = set_exc,
                              !.exc = done.exc, !.ret = done.ret,
                              !.constructed = done.constructed,
                              !.factory_calls = done.factory_calls,
                              !.attach_calls = done.attach_calls,
                              !.pre = <<Registry>>,
                              !.pre_datasources = datasources]
    /\ next_id' = next_id + 1
    /\ UNCHANGED <<type_lookup, asset_lookup, source_factories, class_dict,
                   facades, calls, reg_log, threads>>

(* self.pandas_default *)
PandasDefault(self, set_exc) ==
    /\ self \in facades
    /\ LET done == pandas_default(self, datasources[self], next_id, set_exc)
       IN  /\ done.factory_calls > 0 => next_id <= MaxInstances
           /\ done.factory_calls = 0 => set_exc = NoExc
           /\ datasources' = [datasources EXCEPT ![self] = done.datasources]
           /\ next_id' = next_id + done.factory_calls
           /\ last' = [NoLast EXCEPT !.op = "pandas_default", !.self = self,
                       !.set_exc = set_exc,
                       !.exc = done.exc, !.ret = done.ret,
                       !.constructed = done.constructed,
                       !.factory_calls = done.factory_calls,
                       !.attach_calls = done.attach_calls,
                       !.pre = <<Registry>>,
                       !.pre_datasources = datasources,
                       !.prior =
                           IF last.op = "pandas_default" /\ last.self = self
                           THEN <<[exc |-> last.exc, ret |-> last.ret,
                                   factory_calls |-> last.factory_calls,
                                   pre_datasources |-> last.pre_datasources]>>
                           ELSE <<>>]
    /\ UNCHANGED <<type_lookup, asset_lookup, source_factories, class_dict,
                   facades, calls, reg_log, threads>>

\* Registration calls, and facades created at any time between them
Next ==
    \/ \E ds_type \in DatasourceTypes : \E factory_fn \in FactoryFns(ds_type) :
           Register(ds_type, factory_fn)
    \/ \E data_context \in DataContexts : NewFacade(data_context)

Spec == Init /\ [][Next]_vars

\* The classes registered while the facade is in use
FacadeDatasourceTypes ==
    {d \in DatasourceTypes :
        d.name \in {"PandasDatasource", "PandasFilesystemDatasource",
                    "SqlDatasource"}}

\* Registration calls interleaved with the use of the facades
NextFacade ==
    \/ \E ds_type \in FacadeDatasourceTypes : \E factory_fn \in FactoryFns(ds_type) :
           Register(ds_type, factory_fn)
    \/ \E data_context \in DataContexts : NewFacade(data_context)
    \/ \E self \in DataContexts : \E attr_name \in AttrNames :
           GetAttr(self, attr_name)
    \/ \E self \in DataContexts : \E attr_name \in AttrNames :
       \E name \in InstanceNames : \E set_exc \in SetContextOutcomes :
           CallFactory(self, attr_name, name, set_exc)

SpecFacade == Init /\ [][NextFacade]_vars

\* The classes registered while pandas_default is in use
DefaultDatasourceTypes ==
    {d \in DatasourceTypes : d.name \in {"PandasDatasource", "SqlDatasource"}}

\* the factories a caller uses next to pandas_default
DefaultAttrNames == {"add_pandas", "add_sql"}

\* Registration calls interleaved with the use of pandas_default and of the
\* factories
NextDefault ==
    \/ \E ds_type \in DefaultDatasourceTypes : \E factory_fn \in FactoryFns(ds_type) :
           Register(ds_type, factory_fn)
    \/ \E data_context \in DataContexts : NewFacade(data_context)
    \/ \E self \in DataContexts : \E attr_name \in DefaultAttrNames :
       \E name \in InstanceNames : \E set_exc \in SetContextOutcomes :
           CallFactory(self, attr_name, name, set_exc)
    \/ \E self \in DataContexts : \E set_exc \in SetContextOutcomes :
           PandasDefault(self, set_exc)

SpecDefault == Init /\ [][NextDefault]_vars

----------------------------------------------------------------------------
(* Concurrent registration.  No lock surrounds the call, so a thread may   *)
(* be switched out between any two of its statements.  A step below is one *)
(* statement that reads or writes type_lookup or __source_factories;       *)
(* _register_assets, which writes only the lookup and the __dict__ of the  *)
(* class being registered, is one step.                                    *)

\* lines 110-114, then entering cls.type_lookup.transaction() (line 117)
T_Call(t, ds_type, factory_fn) ==
    /\ threads[t].pc = "idle"
    /\ LET ds_type_name == _get_field_details(ds_type, "type").default_value
       IN  threads' = [threads EXCEPT ![t] =
             IF ~Truthy(ds_type_name)
             THEN [@ EXCEPT !.pc = "done", !.ds_type = ds_type.name,
                            !.factory_fn = factory_fn,
                            !.exc = "TypeRegistrationError"]
             ELSE [@ EXCEPT !.pc = "enter", !.ds_type = ds_type.name,
                            !.factory_fn = factory_fn,
                            !.ds_backup = type_lookup]]
    /\ UNCHANGED <<type_lookup, asset_lookup, source_factories, class_dict,
                   facades, datasources, next_id, calls, reg_log, last>>

\* entering ds_type._type_lookup.transaction() (line 117)
T_Enter(t) ==
    /\ threads[t].pc = "enter"
    /\ threads' = [threads EXCEPT ![t] =
          [@ EXCEPT !.pc = "assets",
                    !.asset_backup = asset_lookup[threads[t].ds_type]]]
    /\ UNCHANGED <<type_lookup, asset_lookup, source_factories, class_dict,
                   facades, datasources, next_id, calls, reg_log, last>>

\* cls._register_assets(ds_type, ...) (line 119)
T_RegisterAssets(t) ==
    /\ threads[t].pc = "assets"
    /\ LET c == threads[t].ds_type
           assets == _register_assets(ClassOf(c), asset_lookup[c], class_dict[c])
       IN  /\ asset_lookup' = [asset_lookup EXCEPT ![c] = assets.asset_type_lookup]
           /\ class_dict' = [class_dict EXCEPT ![c] = assets.cls_dict]
           /\ threads' = [threads EXCEPT ![t] =
                 IF assets.exc # NoExc
                 THEN [@ EXCEPT !.pc = "exit", !.exc = assets.exc]
                 ELSE [@ EXCEPT !.pc = "check"]]
    /\ UNCHANGED <<type_lookup, source_factories, facades, datasources, next_id,
                   calls, reg_log, last>>

\* lines 145-149: the look for a pre-existing factory
T_Check(t) ==
    /\ threads[t].pc = "check"
    /\ threads' = [threads EXCEPT ![t] =
          IF PreExisting(source_factories, "add_" \o ClassOf(threads[t].ds_type).type)
          THEN [@ EXCEPT !.pc = "exit", !.exc = "TypeRegistrationError"]
          ELSE [@ EXCEPT !.pc = "set"]]
    /\ UNCHANGED <<type_lookup, asset_lookup, source_factories, class_dict,
                   facades, datasources, next_id, calls, reg_log, last>>

\* line 151: datasource_type_lookup[ds_type] = ds_type_name
T_Set(t) ==
    /\ threads[t].pc = "set"
    /\ LET c == ClassOf(threads[t].ds_type)
           set == TypeLookupSet(type_lookup, c.name, c.type)
       IN  /\ type_lookup' = set.data
           /\ threads' = [threads EXCEPT ![t] =
                 IF set.exc # NoExc
                 THEN [@ EXCEPT !.pc = "exit", !.exc = set.exc]
                 ELSE [@ EXCEPT !.pc = "insert"]]
    /\ UNCHANGED <<asset_lookup, source_factories, class_dict, facades,
                   datasources, next_id, calls, reg_log, last>>

\* lines 153-156: factory_fn.__name__ = method_name, then
\* cls.__source_factories[method_name] = factory_fn
T_Insert(t) ==
    /\ threads[t].pc = "insert"
    /\ source_factories' =
          IF NameSettable(threads[t].factory_fn)
          THEN DictSet(source_factories,
                       "add_" \o ClassOf(threads[t].ds_type).type,
                       threads[t].factory_fn)
          ELSE source_factories
    /\ threads' = [threads EXCEPT ![t] =
          IF NameSettable(threads[t].factory_fn)
          THEN [@ EXCEPT !.pc = "exit"]
          ELSE [@ EXCEPT !.pc = "exit", !.exc = "AttributeError"]]
    /\ UNCHANGED <<type_lookup, asset_lookup, class_dict, facades, datasources,
                   next_id, calls, reg_log, last>>

\* leaving the with statement: both transactions exit
T_Exit(t) ==
    /\ threads[t].pc = "exit"
    /\ asset_lookup' = [asset_lookup EXCEPT ![threads[t].ds_type] =
          TransactionExit(threads[t].asset_backup, @, threads[t].exc)]
    /\ type_lookup' = TransactionExit(threads[t].ds_backup, type_lookup,
                                      threads[t].exc)
    /\ threads' = [threads EXCEPT ![t] = [@ EXCEPT !.pc = "done"]]
    /\ UNCHANGED <<source_factories, class_dict, facades, datasources, next_id,
                   calls, reg_log, last>>

NextConc ==
    \/ \E t \in Threads : \E ds_type \in DatasourceTypes :
       \E factory_fn \in FactoryFns(ds_type) : T_Call(t, ds_type, factory_fn)
    \/ \E t \in Threads : T_Enter(t)
    \/ \E t \in Threads : T_RegisterAssets(t)
    \/ \E t \in Threads : T_Check(t)
    \/ \E t \in Threads : T_Set(t)
    \/ \E t \in Threads : T_Insert(t)
    \/ \E t \in Threads : T_Exit(t)

SpecConc == Init /\ [][NextConc]_vars

----------------------------------------------------------------------------
(* Properties *)

Registered == last.op = "register"

\* the registry state before the last operation
Pre == last.pre[1]

IsPublic(t) == ~startswith(t.name, "_")

AddAssetName(t) == "add_" \o t.type \o "_asset"

ReadName(t) == "read_" \o t.type

\* the public asset types of class c that declare a type
TypedPublicAssets(c) ==
    {c.asset_types[i] : i \in {j \in 1..Len(c.asset_types) :
        IsPublic(c.asset_types[j]) /\ c.asset_types[j].type # None}}

\* the last call registered a class with asset types [A, B], A public with
\* a type, B public with the type None
C1_Case ==
    /\ Registered
    /\ LET c == ClassOf(last.ds_type)
       IN  /\ Len(c.asset_types) = 2
           /\ IsPublic(c.asset_types[1]) /\ c.asset_types[1].type # None
           /\ IsPublic(c.asset_types[2]) /\ c.asset_types[2].type = None

\* C1 as stated: registering P with asset types [A, B], A valid and B of
\* type None, raises TypeRegistrationError, and afterwards type_lookup has
\* no entry for P, P's asset lookup none for A or B, __source_factories no
\* add_<P.type> and resolving add_<P.type> raises AttributeError, whatever
\* was registered before.
C1_Original ==
    C1_Case =>
        LET c == ClassOf(last.ds_type)
        IN  /\ last.exc = "TypeRegistrationError"
            /\ \A i \in 1..Len(type_lookup) : type_lookup[i].type # c.name
            /\ asset_lookup[c.name] = <<>>
            /\ ~DictHas(source_factories, "add_" \o c.type)
            /\ \A self \in DataContexts :
                   __getattr__(self, "add_" \o c.type).exc = "AttributeError"

\* C1 as amended: the call raises TypeRegistrationError and leaves
\* type_lookup, every asset lookup and __source_factories as they were: no
\* entry for P, none for A or B, and add_<P.type> is bound and resolves
\* afterwards exactly if it was bound before the call.
C1_Atomic ==
    C1_Case =>
        LET c == ClassOf(last.ds_type)
        IN  /\ last.exc = "TypeRegistrationError"
            /\ type_lookup = Pre.type_lookup
            /\ asset_lookup = Pre.asset_lookup
            /\ source_factories = Pre.source_factories
            /\ \A i \in 1..Len(type_lookup) : type_lookup[i].type # c.name
            /\ asset_lookup[c.name] = <<>>
            /\ \A self \in DataContexts :
                   __getattr__(self, "add_" \o c.type).exc = "AttributeError"
                       <=> ~DictHas(Pre.source_factories, "add_" \o c.type)

\* reached: such a call made when another class had registered add_<P.type>
C1_Witness ==
    /\ C1_Case
    /\ DictHas(Pre.source_factories, "add_" \o ClassOf(last.ds_type).type)

\* C2 as stated: when add_<type> is bound, every later registration of a
\* class declaring that type raises TypeRegistrationError and leaves the
\* bound callable, type_lookup and the asset lookups as they were.
C2_Original ==
    (/\ Registered
     /\ Truthy(ClassOf(last.ds_type).type)
     /\ DictHas(Pre.source_factories, "add_" \o ClassOf(last.ds_type).type))
    => LET method_name == "add_" \o ClassOf(last.ds_type).type
       IN  /\ last.exc = "TypeRegistrationError"
           /\ DictHas(source_factories, method_name)
           /\ DictItem(source_factories, method_name)
                  = DictItem(Pre.source_factories, method_name)
           /\ type_lookup = Pre.type_lookup
           /\ asset_lookup = Pre.asset_lookup

\* C4 as stated: a registration call that raises leaves type_lookup, the
\* asset lookups, __source_factories and the methods bound on the
\* Datasource class as they were before the call.
C4_Original ==
    (Registered /\ last.exc # NoExc) =>
        /\ type_lookup = Pre.type_lookup
        /\ asset_lookup = Pre.asset_lookup
        /\ source_factories = Pre.source_factories
        /\ class_dict = Pre.class_dict

\* C5: registering a class whose `type` is None or "" raises
\* TypeRegistrationError and leaves type_lookup, the asset lookups,
\* __source_factories and the methods bound on the class as they were.
C5_MissingType ==
    (Registered /\ ~Truthy(ClassOf(last.ds_type).type)) =>
        /\ last.exc = "TypeRegistrationError"
        /\ type_lookup = Pre.type_lookup
        /\ asset_lookup = Pre.asset_lookup
        /\ source_factories = Pre.source_factories
        /\ class_dict = Pre.class_dict

\* reached: such a call, for a class with an asset type to process
C5_Witness ==
    /\ Registered
    /\ ~Truthy(ClassOf(last.ds_type).type)
    /\ ClassOf(last.ds_type).asset_types # <<>>
    /\ last.exc # NoExc

\* C6: on every facade, factories is exactly the add_<type> names of the
\* registrations that returned normally, in that order and without
\* duplicates, and __dir__ contains every one of them.
C6_Discovery ==
    \A self \in facades :
        /\ factories(self) = reg_log
        /\ NoDuplicates(factories(self))
        /\ SeqToSet(factories(self)) \subseteq SeqToSet(dir(self))

\* reached: two registrations succeeded, a facade on each data context
C6_Witness == Len(reg_log) = 2 /\ facades = DataContexts

\* C7 as stated: resolving a name succeeds exactly if it is a key of
\* __source_factories; for an unknown name it raises AttributeError naming
\* the current factories, calls no factory and leaves the data context
\* alone; the wrapper of a known name calls the factory once, attaches the
\* instance once and returns that instance.
C7_Original ==
    /\ last.op = "__getattr__" =>
         /\ last.exc = NoExc <=> DictHas(source_factories, last.attr_name)
         /\ last.exc # NoExc =>
              /\ last.exc = "AttributeError"
              /\ last.message[4] = DictKeys(source_factories)
              /\ last.factory_calls = 0
              /\ datasources = last.pre_datasources
    /\ last.op = "wrapped" =>
         /\ last.factory_calls = 1
         /\ last.attach_calls = 1
         /\ last.ret # <<>>
         /\ last.ret = last.constructed
         /\ DictHas(datasources[last.self], last.ret[1].name)
         /\ DictItem(datasources[last.self], last.ret[1].name) = last.ret[1]

\* C8 as stated: whatever the assignment of _data_context raises, wrapped
\* attaches the instance to the data context and returns it.
C8_Original ==
    (last.op = "wrapped" /\ last.set_exc # NoExc) =>
        /\ last.exc = NoExc
        /\ last.attach_calls = 1
        /\ last.ret # <<>>
        /\ last.ret = last.constructed

\* C9: a registration that returns normally leaves every add_<type>_asset
\* the class already had, for a public asset type of that type, bound to
\* the same function.
C9_NonOverride ==
    (Registered /\ last.exc = NoExc) =>
        \A t \in TypedPublicAssets(ClassOf(last.ds_type)) :
            DictHas(Pre.class_dict[last.ds_type], AddAssetName(t)) =>
                /\ DictHas(class_dict[last.ds_type], AddAssetName(t))
                /\ DictItem(class_dict[last.ds_type], AddAssetName(t))
                     = DictItem(Pre.class_dict[last.ds_type], AddAssetName(t))

\* reached: a class that defines add_table_asset registered normally
C9_Witness ==
    /\ Registered /\ last.exc = NoExc
    /\ \E t \in TypedPublicAssets(ClassOf(last.ds_type)) :
          /\ DictHas(Pre.class_dict[last.ds_type], AddAssetName(t))
          /\ DictItem(class_dict[last.ds_type], AddAssetName(t)) = UserDefined

\* C10 as stated: a registration that returns normally leaves each of
\* read_<type> and add_<type>_asset the class already had, for a public
\* asset type of that type, bound to the same function, whether or not the
\* other of the two was defined.
C10_Original ==
    (Registered /\ last.exc = NoExc) =>
        \A t \in TypedPublicAssets(ClassOf(last.ds_type)) :
            \A method_name \in {AddAssetName(t), ReadName(t)} :
                DictGet(Pre.class_dict[last.ds_type], method_name) = UserDefined
                    => DictGet(class_dict[last.ds_type], method_name) = UserDefined

\* C3 as stated: two concurrent registrations of two classes that declare
\* the same type end with one returning normally and one raising
\* TypeRegistrationError, add_<type> bound to the factory of the former
\* and type_lookup holding that class alone.
C3_Original ==
    \A t1, t2 \in Threads :
        (/\ t1 # t2
         /\ threads[t1].pc = "done" /\ threads[t2].pc = "done"
         /\ threads[t1].ds_type # threads[t2].ds_type
         /\ ClassOf(threads[t1].ds_type).type = ClassOf(threads[t2].ds_type).type
         /\ Truthy(ClassOf(threads[t1].ds_type).type)
         /\ \A t \in {t1, t2} :
               _register_assets(ClassOf(threads[t].ds_type), <<>>,
                                Init_class_dict[threads[t].ds_type]).exc = NoExc)
        => \E won, lost \in {t1, t2} :
              /\ won # lost
              /\ threads[won].exc = NoExc
              /\ threads[lost].exc = "TypeRegistrationError"
              /\ source_factories =
                    << <<"add_" \o ClassOf(threads[won].ds_type).type,
                         threads[won].factory_fn>> >>
              /\ type_lookup =
                    << [type |-> threads[won].ds_type,
                        name |-> ClassOf(threads[won].ds_type).type] >>

\* hasattr(ds_type, name): a method of the class itself or of a base class
hasattr(class_dicts, c, name) ==
    \/ DictHas(class_dicts[c], name)
    \/ \E i \in 1..Len(Bases[c]) : DictHas(class_dicts[Bases[c][i]], name)

\* C11 as stated: after a registration that returns normally the class
\* exposes both add_<type>_asset and read_<type> for every public asset
\* type of that type, whichever of the two its body defined.
C11_Original ==
    (Registered /\ last.exc = NoExc) =>
        \A t \in TypedPublicAssets(ClassOf(last.ds_type)) :
            /\ hasattr(class_dict, last.ds_type, AddAssetName(t))
            /\ hasattr(class_dict, last.ds_type, ReadName(t))

\* what is left of C11 when the class body does not define add_<type>_asset
\* alone: both methods are then exposed
C11_ExceptAddAlone ==
    (Registered /\ last.exc = NoExc) =>
        \A t \in TypedPublicAssets(ClassOf(last.ds_type)) :
            (DictHas(Pre.class_dict[last.ds_type], AddAssetName(t))
                 => DictHas(Pre.class_dict[last.ds_type], ReadName(t)))
            => /\ hasattr(class_dict, last.ds_type, AddAssetName(t))
               /\ hasattr(class_dict, last.ds_type, ReadName(t))

\* the errors of TypeLookup's item assignment
DuplicateErrors == {"DuplicateTagError", "DuplicateTypeError"}

\* setting type <-> name in the map data would break its bijection
BreaksBijection(data, type, name) ==
    \E i \in 1..Len(data) : (data[i].name = name) # (data[i].type = type)

\* the last call was a registration of a class with a type in which an
\* assignment to a lookup is bound to break the bijection: two public asset
\* types of the class declare the same type, or an asset type, the class or
\* its type is in its lookup with another partner
C12_Case ==
    /\ Registered
    /\ LET c == ClassOf(last.ds_type)
       IN  /\ Truthy(c.type)
           /\ \/ \E t, u \in TypedPublicAssets(c) : t # u /\ t.type = u.type
              \/ \E t \in TypedPublicAssets(c) :
                     BreaksBijection(Pre.asset_lookup[c.name], t.name, t.type)
              \/ BreaksBijection(Pre.type_lookup, c.name, c.type)

\* C12 as stated: such a registration raises TypeRegistrationError, not the
\* lookup's own duplicate error, and leaves type_lookup, the asset lookups
\* and __source_factories as they were.
C12_Original ==
    C12_Case =>
        /\ last.exc = "TypeRegistrationError"
        /\ type_lookup = Pre.type_lookup
        /\ asset_lookup = Pre.asset_lookup
        /\ source_factories = Pre.source_factories

\* what is left of C12: the call raises, if not TypeRegistrationError then
\* the lookup's duplicate error, and leaves the three as they were
C12_StateKept ==
    C12_Case =>
        /\ last.exc \in {"TypeRegistrationError"} \cup DuplicateErrors
        /\ type_lookup = Pre.type_lookup
        /\ asset_lookup = Pre.asset_lookup
        /\ source_factories = Pre.source_factories

\* reached: a class whose type is in type_lookup with another class
C12_ProviderCase ==
    /\ C12_Case
    /\ BreaksBijection(Pre.type_lookup, last.ds_type, ClassOf(last.ds_type).type)

\* the data of a lookup is a bijection between types and names: looking a
\* type's name up gives the type back, and a name's type the name
Bijective(data) ==
    \A i \in 1..Len(data) :
        /\ TypeLookupType(data, TypeLookupName(data, data[i].type)) = data[i].type
        /\ TypeLookupName(data, TypeLookupType(data, data[i].name)) = data[i].name
        /\ \A j \in 1..Len(data) :
               (data[i].type = data[j].type \/ data[i].name = data[j].name) => i = j

\* every entry of the lookup data `before` is an entry of `after`
EntriesKept(before, after) ==
    \A i \in 1..Len(before) : \E j \in 1..Len(after) : after[j] = before[i]

\* C13: in every state reached by registration calls, type_lookup and the
\* lookup of every class are bijections between types and type names, the
\* classes _iter_all_registered_types yields are those of type_lookup with
\* the names their classes declare, and every entry a lookup had before the
\* last call is still there with the same partner.
C13_Bijection ==
    /\ Bijective(type_lookup)
    /\ \A c \in DatasourceNames : Bijective(asset_lookup[c])
    /\ \A i \in 1..Len(type_lookup) :
           /\ ClassOf(type_lookup[i].type).type = type_lookup[i].name
           /\ \E k \in 1..Len(_iter_all_registered_types(Registry)) :
                  _iter_all_registered_types(Registry)[k]
                      = <<type_lookup[i].name, type_lookup[i].type>>
    /\ last.op # "none" =>
           /\ EntriesKept(Pre.type_lookup, type_lookup)
           /\ \A c \in DatasourceNames :
                  EntriesKept(Pre.asset_lookup[c], asset_lookup[c])

\* reached: with a class and its asset types in the lookups, a call that
\* the lookup refused with its duplicate error
C13_Witness ==
    /\ Registered
    /\ last.exc \in DuplicateErrors
    /\ Len(Pre.type_lookup) = 1
    /\ \E c \in DatasourceNames : Len(asset_lookup[c]) >= 1

\* C14 as stated: every type name in type_lookup and in the lookup of any
\* class is a non-empty string.
C14_Original ==
    /\ \A i \in 1..Len(type_lookup) : Truthy(type_lookup[i].name)
    /\ \A c \in DatasourceNames :
           \A i \in 1..Len(asset_lookup[c]) : Truthy(asset_lookup[c][i].name)

\* what is left of C14: every type name in type_lookup is a non-empty
\* string, and every type name in the lookup of a class is a string
C14_ProviderTags ==
    /\ \A i \in 1..Len(type_lookup) : Truthy(type_lookup[i].name)
    /\ \A c \in DatasourceNames :
           \A i \in 1..Len(asset_lookup[c]) : asset_lookup[c][i].name # None

\* the last operation read pandas_default on a facade whose data context
\* had nothing under the default name, with add_pandas registered
C15_FirstCall ==
    /\ last.op = "pandas_default"
    /\ DictHas(Pre.source_factories, "add_pandas")
    /\ ~DictHas(last.pre_datasources[last.self], DEFAULT_PANDAS_DATASOURCE_NAME)

\* the last two operations read pandas_default on the same facade, and the
\* data context had nothing under the default name before the first
C15_SecondCall ==
    /\ last.op = "pandas_default"
    /\ DictHas(Pre.source_factories, "add_pandas")
    /\ last.prior # <<>>
    /\ ~DictHas(last.prior[1].pre_datasources[last.self],
                DEFAULT_PANDAS_DATASOURCE_NAME)

\* the first of two reads constructs one instance, attaches it under the
\* default name and returns it
C15_FirstCreates ==
    C15_FirstCall =>
        /\ last.exc = NoExc
        /\ last.factory_calls = 1
        /\ last.attach_calls = 1
        /\ last.ret # <<>>
        /\ last.ret = last.constructed
        /\ DictHas(datasources[last.self], DEFAULT_PANDAS_DATASOURCE_NAME)
        /\ DictItem(datasources[last.self], DEFAULT_PANDAS_DATASOURCE_NAME)
               = last.ret[1]

\* the second of two reads returns the instance the first returned and
\* constructs and attaches nothing
C15_SecondReturnsSame ==
    C15_SecondCall =>
        /\ last.prior[1].exc = NoExc
        /\ last.exc = NoExc
        /\ last.ret # <<>>
        /\ last.ret = last.prior[1].ret
        /\ last.prior[1].factory_calls + last.factory_calls = 1
        /\ datasources = last.pre_datasources

\* C15 as stated: from a data context with nothing under the default
\* name, reading pandas_default twice constructs and attaches exactly one
\* instance under that name, and the second read returns the instance the
\* first returned and constructs nothing.
C15_Original == C15_FirstCreates /\ C15_SecondReturnsSame

\* what is left of C15 when the assignment of _data_context on the new
\* instance raises nothing but ValueError
C15_ExceptSetContext ==
    /\ (last.set_exc \in {NoExc, "ValueError"}) => C15_FirstCreates
    /\ (C15_SecondCall /\ last.prior[1].exc = NoExc) =>
           /\ last.exc = NoExc
           /\ last.ret = last.prior[1].ret
           /\ last.prior[1].factory_calls = 1 /\ last.factory_calls = 0
           /\ datasources = last.pre_datasources

\* reached: a second read after a first that constructed the instance
C15_TwoReads ==
    /\ C15_SecondCall
    /\ last.prior[1].factory_calls = 1
    /\ last.exc = NoExc

\* the last operation read pandas_default on a facade whose data context
\* had an instance under the default name
C16_Case ==
    /\ last.op = "pandas_default"
    /\ DictHas(last.pre_datasources[last.self], DEFAULT_PANDAS_DATASOURCE_NAME)

\* the instance that was under the default name
C16_Existing ==
    DictItem(last.pre_datasources[last.self], DEFAULT_PANDAS_DATASOURCE_NAME)

C16_Compatible ==
    /\ C16_Case
    /\ C16_Existing.made_by \in FactoryFns(ClassOf("PandasDatasource"))
    /\ last.prior = <<>>

\* the private asset types of class c
PrivateAssets(c) ==
    {c.asset_types[i] : i \in {j \in 1..Len(c.asset_types) :
        ~IsPublic(c.asset_types[j])}}

\* class c as it would be with its private asset types not declared
WithoutPrivate(c) == [c EXCEPT !.asset_types = SelectSeq(@, IsPublic)]

\* C17: a registration of a class that declares private asset types ends
\* as the registration of the same class without them would (the same
\* exception or none, the same lookups, factories and methods: the later
\* asset types are processed, a valid one registered and an invalid one
\* aborting the call), and leaves no entry for a private asset type in the
\* lookup of the class and no method synthesized for one on the class.
C17_PrivateSkipped ==
    (Registered /\ PrivateAssets(ClassOf(last.ds_type)) # {}) =>
        LET c == ClassOf(last.ds_type)
            public_only ==
                register_types_and_ds_factory(Pre, WithoutPrivate(c),
                                              last.factory_fn)
        IN  /\ last.exc = public_only.exc
            /\ Registry = public_only.registry
            /\ \A t \in PrivateAssets(c) :
                   /\ \A i \in 1..Len(asset_lookup[c.name]) :
                          asset_lookup[c.name][i].type # t.name
                   /\ \A i \in 1..Len(class_dict[c.name]) :
                          class_dict[c.name][i][2]
                              \notin {AddAssetFactory(t), ReadAssetFactory(t)}
                   /\ Truthy(t.type) =>
                          /\ ~DictHas(class_dict[c.name], AddAssetName(t))
                          /\ ~DictHas(class_dict[c.name], ReadName(t))

\* reached: a class whose first asset type is private and has a type
\* registered normally, its public asset type after it in the lookup
C17_Witness ==
    /\ Registered /\ last.exc = NoExc
    /\ LET c == ClassOf(last.ds_type)
       IN  /\ Len(c.asset_types) = 2
           /\ ~IsPublic(c.asset_types[1])
           /\ Truthy(c.asset_types[1].type)
           /\ Len(asset_lookup[c.name]) = 1
           /\ DictHas(class_dict[c.name], AddAssetName(c.asset_types[2]))

\* reached: a private asset type followed by one without a type: the call
\* raised
C17_LaterInvalid ==
    /\ Registered /\ last.exc = "TypeRegistrationError"
    /\ LET c == ClassOf(last.ds_type)
       IN  /\ Len(c.asset_types) = 2
           /\ ~IsPublic(c.asset_types[1])
           /\ IsPublic(c.asset_types[2]) /\ c.asset_types[2].type = None

\* the base classes of class c
BasesOf(c) == {Bases[c][i] : i \in 1..Len(Bases[c])}

\* C18: when a class S with a base class B is registered normally, every
\* add_<type>_asset that S itself did not have before the call is
\* synthesized and bound on S together with read_<type>, whether or not B
\* has a method of that name, user-defined or synthesized; an
\* add_<type>_asset S itself had stays as it was; the methods of B are
\* left as they were.
C18_OwnDictOnly ==
    (Registered /\ last.exc = NoExc /\ BasesOf(last.ds_type) # {}) =>
        LET S == last.ds_type
        IN  /\ \A t \in TypedPublicAssets(ClassOf(S)) :
                   IF DictHas(Pre.class_dict[S], AddAssetName(t))
                   THEN DictGet(class_dict[S], AddAssetName(t))
                            = DictGet(Pre.class_dict[S], AddAssetName(t))
                   ELSE /\ DictGet(class_dict[S], AddAssetName(t))
                               = AddAssetFactory(t)
                        /\ DictGet(class_dict[S], ReadName(t))
                               = ReadAssetFactory(t)
            /\ \A B \in BasesOf(S) : class_dict[B] = Pre.class_dict[B]

\* reached: S registered normally when its base class B had a
\* user-defined add_table_asset and a synthesized add_csv_asset, S itself
\* neither; both are now bound on S
C18_Witness ==
    /\ Registered /\ last.exc = NoExc /\ BasesOf(last.ds_type) # {}
    /\ LET S == last.ds_type
           B == Bases[S][1]
       IN  /\ DictGet(Pre.class_dict[B], "add_table_asset") = UserDefined
           /\ DictGet(Pre.class_dict[B], "add_csv_asset") = AddAssetFactory(CSVAsset)
           /\ ~DictHas(Pre.class_dict[S], "add_table_asset")
           /\ ~DictHas(Pre.class_dict[S], "add_csv_asset")
           /\ DictGet(class_dict[S], "add_table_asset") = AddAssetFactory(TableAsset)
           /\ DictGet(class_dict[S], "add_csv_asset") = AddAssetFactory(CSVAsset)

\* C19: in every state reached by registration calls made one after the
\* other, the keys of __source_factories are exactly the names add_<type>
\* of the type names in type_lookup.
C19_InStep ==
    SeqToSet(DictKeys(source_factories))
        = {"add_" \o type_lookup[i].name : i \in 1..Len(type_lookup)}

\* reached: after a registration that returned normally, one that raised
\* at line 153, when line 151 had put the class into type_lookup
C19_Witness ==
    /\ Registered /\ last.exc = "AttributeError"
    /\ ~NameSettable(last.factory_fn)
    /\ Len(type_lookup) = 1 /\ Len(source_factories) = 1

====
